---------------------------- MODULE Spec2Model ----------------------------
(***************************************************************************)
(* Model of the NSE pre-open scraper (script.ts): run() as a sequence of   *)
(* awaited steps, uploadToR2, the local scratch directories and the R2     *)
(* bucket.  Every await is one action; the environment decides whether it  *)
(* resolves or rejects.                                                    *)
(***************************************************************************)
EXTENDS Integers, Sequences, FiniteSets, TLC

(* ------------------------------ bounds -------------------------------- *)

\* clock ticks (1 ms each) that may pass during the modelled runs
MaxTicks == 2

\* the runs (processes executing script.ts); Spec executes run 1 alone
Runs == {1, 2}

\* days since 1970-01-01 on which a run may start (2024-09-24)
StartDays == {19990}

\* milliseconds into the UTC day at which a run may start: 03:40:00.000 UTC
\* (the scheduled 09:10 IST) and the last millisecond of the day
StartMs == {13200000, 86399999}

\* what download.suggestedFilename() may return ("" = none provided)
SuggestedNames == {"", "preopen_20240924.csv", "MW-Pre-Open-Market.xlsx"}

\* the payloads a download may carry
Payloads == {"SYMBOL,PRICE", "SYMBOL,PRICE,QTY"}

\* process.env values: <<>> is undefined, <<s>> is the string s
EnvValues == {<<>>, <<"">>, <<"r2-credential">>}

(* ------------------------- program constants -------------------------- *)

TARGET_URL == "https://www.nseindia.com/market-data/pre-open-market-cm-and-emerge-market"
SCREENSHOT_PATH == "./screenshots/pre-open-market.png"
AFTER_DOWNLOAD_PATH == "./screenshots/after-download.png"
ERROR_STATE_PATH == "./screenshots/error-state.png"
ERROR_PAGE_PATH == "./screenshots/error-page.png"
DOWNLOADS_PATH == "./downloads"
R2_BUCKET == "nse-data"
KEY_PREFIX == "nse-preopen/"

MsPerDay == 86400000

(* --------------------------- pure functions --------------------------- *)

\* JS truthiness of a process.env value: undefined and "" are falsy
Truthy(v) == v # <<>> /\ v[1] # ""

\* a || b on strings
OrElse(a, b) == IF a # "" THEN a ELSE b

\* decimal rendering of n, left-padded with zeros to width w
RECURSIVE ZeroPad(_, _)
ZeroPad(s, w) == IF Len(s) >= w THEN s ELSE ZeroPad("0" \o s, w)

Pad(n, w) == ZeroPad(ToString(n), w)

\* the civil date <<year, month, day>> of a day number (days since 1970-01-01),
\* proleptic Gregorian calendar, as Date.prototype.toISOString computes it
CivilFromDays(days) ==
    LET z   == days + 719468
        era == z \div 146097
        doe == z - era * 146097
        yoe == (doe - doe \div 1460 + doe \div 36524 - doe \div 146096) \div 365
        doy == doe - (365 * yoe + yoe \div 4 - yoe \div 100)
        mp  == (5 * doy + 2) \div 153
        d   == doy - (153 * mp + 2) \div 5 + 1
        m   == IF mp < 10 THEN mp + 3 ELSE mp - 9
        y   == yoe + era * 400 + (IF m <= 2 THEN 1 ELSE 0)
    IN  <<y, m, d>>

\* new Date().toISOString() at instant t = [day, ms]
ToISOString(t) ==
    LET c  == CivilFromDays(t.day)
        hh == t.ms \div 3600000
        mm == (t.ms % 3600000) \div 60000
        ss == (t.ms % 60000) \div 1000
        ms == t.ms % 1000
    IN  Pad(c[1], 4) \o "-" \o Pad(c[2], 2) \o "-" \o Pad(c[3], 2) \o "T"
        \o Pad(hh, 2) \o ":" \o Pad(mm, 2) \o ":" \o Pad(ss, 2) \o "."
        \o Pad(ms, 3) \o "Z"

\* s.split('T')[0]: the part of s before the first 'T'
RECURSIVE BeforeT(_, _)
BeforeT(s, i) ==
    IF i > Len(s) THEN s
    ELSE IF SubSeq(s, i, i) = "T" THEN SubSeq(s, 1, i - 1)
    ELSE BeforeT(s, i + 1)

SplitT0(s) == BeforeT(s, 1)

\* variant: the timestamp in whole seconds (Math.floor(Date.now() / 1000))
DateNowStringSeconds(t) ==
    LET hi == t.day * 864 + t.ms \div 100000
        lo == (t.ms % 100000) \div 1000
    IN  ToString(hi) \o Pad(lo, 2)

\* Date.now() at instant t, rendered in decimal: day * 86400000 + ms, computed
\* in two halves (high digits, low five digits) to stay within 32-bit integers
DateNowString(t) ==
    LET hi == t.day * 864 + t.ms \div 100000
        lo == t.ms % 100000
    IN  ToString(hi) \o Pad(lo, 5)

\* `pre-open-data-${Date.now()}.csv`
SynthName(t) == "pre-open-data-" \o DateNowString(t) \o ".csv"

\* download.suggestedFilename() || `pre-open-data-${Date.now()}.csv`
ArtifactName(suggested, t) == OrElse(suggested, SynthName(t))

\* path.join(DOWNLOADS_PATH, name); path.join normalises away the leading "./"
PathJoin(dir, name) ==
    LET d == IF Len(dir) >= 2 /\ SubSeq(dir, 1, 2) = "./"
             THEN SubSeq(dir, 3, Len(dir)) ELSE dir
    IN  d \o "/" \o name

\* fileName.endsWith(suffix)
EndsWith(s, suffix) ==
    /\ Len(s) >= Len(suffix)
    /\ SubSeq(s, Len(s) - Len(suffix) + 1, Len(s)) = suffix

\* variant: the timestamp cut to the month (toISOString().slice(0, 7))
UploadMonth(t) == SubSeq(ToISOString(t), 1, 7)

\* the upload's timestamp: new Date().toISOString().split('T')[0]
UploadDate(t) == SplitT0(ToISOString(t))

\* the object key of an upload of fileName at instant t
StorageKey(fileName, t) == KEY_PREFIX \o UploadDate(t) \o "/" \o fileName

ContentTypeOf(fileName) ==
    IF EndsWith(fileName, ".csv") THEN "text/csv" ELSE "application/octet-stream"

\* the PutObjectCommand uploadToR2 builds
PutObjectCommand(fileName, fileContent, t) ==
    [Bucket      |-> R2_BUCKET,
     Key         |-> StorageKey(fileName, t),
     Body        |-> fileContent,
     ContentType |-> ContentTypeOf(fileName),
     Metadata    |-> [source    |-> "nse-scraper",
                      scrapedAt |-> ToISOString(t),
                      fileSize  |-> ToString(Len(fileContent))]]

\* variant: the test with && in place of ||
CredentialsMissingBoth(keyId, secret) == ~Truthy(keyId) /\ ~Truthy(secret)

\* the credentials test of uploadToR2: TRUE when the upload is skipped
CredentialsMissing(keyId, secret) == ~Truthy(keyId) \/ ~Truthy(secret)

(* ------------------------------- state --------------------------------- *)

VARIABLES
    now,      \* the wall clock: [day |-> days since 1970-01-01, ms |-> ms of day]
    ticks,    \* clock ticks taken so far
    env,      \* process.env: R2_ACCESS_KEY_ID, R2_SECRET_ACCESS_KEY
    fs,       \* local filesystem: path -> [content, by]
    store,    \* the R2 bucket: key -> [Body, ContentType, Metadata, by]
    pc,       \* per run: the await the run is at
    trace,    \* per run: the calls made and log lines written, <<op, ok>>
    dl,       \* per run: the resolved download ([suggested, bytes]) or NoDownload
    downloadPath, \* per run: the local downloadPath
    fileName, \* per run: the fileName passed to uploadToR2
    cmd,      \* per run: the PutObjectCommand built by uploadToR2, or NoCommand
    at        \* per run: the instants at which Date.now() was read for
              \* downloadPath (line 143) and for fileName (line 149)

\* the read API (api/index.ts, api/rate-limiter.ts); it reads the bucket `store`
VARIABLES
    clock,     \* Date.now() of the API's host, in ms since the first request
    requests,  \* per caller identity: RateLimiter.requests of its Durable Object
    allowedAt, \* per caller identity: the instants of all requests let through
    resp       \* the API's latest response and the request it answers

apiVars == <<clock, requests, allowedAt, resp>>

vars == <<now, ticks, env, fs, store, pc, trace, dl, downloadPath, fileName, cmd, at,
          clock, requests, allowedAt, resp>>

NoDownload == [suggested |-> "", bytes |-> ""]
NoCommand == [Bucket |-> "", Key |-> "", Body |-> "", ContentType |-> "",
              Metadata |-> [source |-> "", scrapedAt |-> "", fileSize |-> ""]]
NoFile == [content |-> "", by |-> 0]
\* the caller identities: a client address, and the one shared by the requests
\* that carry no CF-Connecting-IP header
Identities == {"203.0.113.7", "unknown"}

NoResponse == [ip |-> "", at |-> 0, allowed |-> TRUE, route |-> "", status |-> 0,
               handler |-> "", body |-> [error |-> ""]]

\* no request has reached the API
ApiIdle ==
    /\ clock = 0
    /\ requests = [ip \in Identities |-> <<>>]
    /\ allowedAt = [ip \in Identities |-> <<>>]
    /\ resp = NoResponse

NoInstant == [day |-> 0, ms |-> 0]

Init ==
    /\ now \in [day : StartDays, ms : StartMs]
    /\ ticks = 0
    /\ env \in [R2_ACCESS_KEY_ID : EnvValues, R2_SECRET_ACCESS_KEY : EnvValues]
    /\ fs = [p \in {} |-> NoFile]
    /\ store = [k \in {} |-> NoCommand]
    /\ pc = [r \in Runs |-> "start"]
    /\ trace = [r \in Runs |-> <<>>]
    /\ dl = [r \in Runs |-> NoDownload]
    /\ downloadPath = [r \in Runs |-> ""]
    /\ fileName = [r \in Runs |-> ""]
    /\ cmd = [r \in Runs |-> NoCommand]
    /\ at = [r \in Runs |-> [path |-> NoInstant, name |-> NoInstant]]
    /\ ApiIdle

(* ------------------------------ helpers -------------------------------- *)

Ev(op, ok) == <<op, ok>>

\* the run called op (whatever the result)
Tried(r, op) == \E i \in 1..Len(trace[r]) : trace[r][i][1] = op
\* op was called and succeeded / failed
Did(r, op) == \E i \in 1..Len(trace[r]) : trace[r][i] = <<op, TRUE>>
Failed(r, op) == \E i \in 1..Len(trace[r]) : trace[r][i] = <<op, FALSE>>
\* how many times op was called
Count(r, op) == Cardinality({i \in 1..Len(trace[r]) : trace[r][i][1] = op})
\* position of the first call of op (0 if none)
FirstIndex(r, op) ==
    IF Tried(r, op)
    THEN CHOOSE i \in 1..Len(trace[r]) :
            /\ trace[r][i][1] = op
            /\ \A j \in 1..(i - 1) : trace[r][j][1] # op
    ELSE 0

WriteFile(files, path, content, r) ==
    [p \in DOMAIN files \cup {path} |->
        IF p = path THEN [content |-> content, by |-> r] ELSE files[p]]

\* variant: a put that does not replace an existing object (If-None-Match: *)
PutObjectIfAbsent(bucket, c, r) ==
    [k \in DOMAIN bucket \cup {c.Key} |->
        IF k = c.Key /\ k \notin DOMAIN bucket
        THEN [Body |-> c.Body, ContentType |-> c.ContentType,
              Metadata |-> c.Metadata, by |-> r]
        ELSE bucket[k]]

\* 53: the store's put: the object under c.Key is replaced
PutObject(bucket, c, r) ==
    [k \in DOMAIN bucket \cup {c.Key} |->
        IF k = c.Key
        THEN [Body |-> c.Body, ContentType |-> c.ContentType,
              Metadata |-> c.Metadata, by |-> r]
        ELSE bucket[k]]

(* ------------------------- run(): one step each ------------------------ *)

\* the run moves from `from` to `to`, having made the calls evs
Goes(r, from, evs, to) ==
    /\ pc[r] = from
    /\ trace' = [trace EXCEPT ![r] = @ \o evs]
    /\ pc' = [pc EXCEPT ![r] = to]
    /\ UNCHANGED apiVars

\* an awaited call that touches nothing but the page: it resolves or rejects
Await(r, from, op, okPc, failPc) ==
    /\ \E ok \in BOOLEAN :
          Goes(r, from, <<Ev(op, ok)>>, IF ok THEN okPc ELSE failPc)
    /\ UNCHANGED <<now, ticks, env, fs, store, dl, downloadPath, fileName, cmd, at>>

\* page.screenshot({path}): writes the image when it resolves
Screenshot(r, from, checkpoint, path, okPc, failPc) ==
    /\ \E ok \in BOOLEAN :
          /\ Goes(r, from, <<Ev(checkpoint, ok)>>, IF ok THEN okPc ELSE failPc)
          /\ fs' = IF ok THEN WriteFile(fs, path, "png", r) ELSE fs
    /\ UNCHANGED <<now, ticks, env, store, dl, downloadPath, fileName, cmd, at>>

\* script.ts 65-67: the two mkdirSync calls; a throw rejects run()
Mkdirs(r) == Await(r, "start", "mkdir", "launch", "rejected")

\* 71: chromium.launch, outside the try
Launch(r) == Await(r, "launch", "launch", "newContext", "rejected")

\* 80: browser.newContext, outside the try
NewContext(r) == Await(r, "newContext", "newContext", "newPage", "rejected")

\* 86: context.newPage, outside the try
NewPage(r) == Await(r, "newPage", "newPage", "goto", "rejected")

\* 90: page.goto(TARGET_URL, timeout 30000)
Goto(r) == Await(r, "goto", "goto", "settle", "automationError")

\* 96: page.waitForTimeout(8000)
Settle(r) == Await(r, "settle", "waitForTimeout:8000", "shotInitial", "automationError")

\* 99: the initial screenshot
ShotInitial(r) ==
    Screenshot(r, "shotInitial", "shot:initial", SCREENSHOT_PATH, "title", "automationError")

\* 101: page.title()
Title(r) == Await(r, "title", "title", "waitForSelector", "automationError")

\* 109: page.waitForSelector('#sel-Pre-Open-Market', timeout 15000)
WaitForSelector(r) ==
    Await(r, "waitForSelector", "waitForSelector", "clickControl", "selectorError")

\* 114: page.click('#sel-Pre-Open-Market')
ClickControl(r) == Await(r, "clickControl", "click:control", "settle2", "selectorError")

\* 115: page.waitForTimeout(2000)
Settle2(r) == Await(r, "settle2", "waitForTimeout:2000", "selectOption", "selectorError")

\* 118: page.selectOption('#sel-Pre-Open-Market', 'ALL')
SelectOption(r) ==
    Await(r, "selectOption", "selectOption:ALL", "settle3", "selectorError")

\* 122: page.waitForTimeout(3000)
Settle3(r) == Await(r, "settle3", "waitForTimeout:3000", "isVisible", "selectorError")

\* variant: the visibility test is not branched on (the click follows anyway)
IsVisibleUnchecked(r) ==
    /\ \E res \in {"visible", "hidden", "throws"} :
          CASE res = "visible" ->
                 Goes(r, "isVisible", <<Ev("isVisible:visible", TRUE)>>, "clickCsv")
            [] res = "hidden" ->
                 Goes(r, "isVisible", <<Ev("isVisible:hidden", TRUE)>>, "clickCsv")
            [] res = "throws" ->
                 Goes(r, "isVisible", <<Ev("isVisible", FALSE)>>, "selectorError")
    /\ UNCHANGED <<now, ticks, env, fs, store, dl, downloadPath, fileName, cmd, at>>

\* 127-129, 155-157: csvButton.isVisible(); not visible: log it
IsVisible(r) ==
    /\ \E res \in {"visible", "hidden", "throws"} :
          CASE res = "visible" ->
                 Goes(r, "isVisible", <<Ev("isVisible:visible", TRUE)>>, "clickCsv")
            [] res = "hidden" ->
                 Goes(r, "isVisible",
                      <<Ev("isVisible:hidden", TRUE), Ev("log:buttonNotFound", TRUE)>>,
                      "logCompleted")
            [] res = "throws" ->
                 Goes(r, "isVisible", <<Ev("isVisible", FALSE)>>, "selectorError")
    /\ UNCHANGED <<now, ticks, env, fs, store, dl, downloadPath, fileName, cmd, at>>

\* variant: the click is awaited first, the listener armed after it
ClickCsvThenArm(r) ==
    /\ \E ok \in BOOLEAN :
          Goes(r, "clickCsv",
               IF ok THEN <<Ev("click:csv", TRUE), Ev("waitForEvent:download", TRUE)>>
                     ELSE <<Ev("click:csv", FALSE)>>,
               IF ok THEN "awaitDownload" ELSE "selectorError")
    /\ UNCHANGED <<now, ticks, env, fs, store, dl, downloadPath, fileName, cmd, at>>

\* 133-136: page.waitForEvent('download') arms the listener, then
\* csvButton.click() is awaited
ClickCsv(r) ==
    /\ \E ok \in BOOLEAN :
          Goes(r, "clickCsv",
               <<Ev("waitForEvent:download", TRUE), Ev("click:csv", ok)>>,
               IF ok THEN "awaitDownload" ELSE "selectorError")
    /\ UNCHANGED <<now, ticks, env, fs, store, dl, downloadPath, fileName, cmd, at>>

\* 139-143: await downloadPromise; then downloadPath is computed
AwaitDownload(r) ==
    /\ \/ /\ Goes(r, "awaitDownload", <<Ev("download", FALSE)>>, "selectorError")
          /\ UNCHANGED <<dl, downloadPath, at>>
       \/ \E s \in SuggestedNames, b \in Payloads :
             /\ Goes(r, "awaitDownload", <<Ev("download", TRUE)>>, "saveAs")
             /\ dl' = [dl EXCEPT ![r] = [suggested |-> s, bytes |-> b]]
             /\ downloadPath' =
                  [downloadPath EXCEPT ![r] = PathJoin(DOWNLOADS_PATH, ArtifactName(s, now))]
             /\ at' = [at EXCEPT ![r].path = now]
    /\ UNCHANGED <<now, ticks, env, fs, store, fileName, cmd>>

\* variant: a rejected saveAs is swallowed and the upload follows
SaveAsIgnoringFailure(r) ==
    /\ \E ok \in BOOLEAN :
          /\ Goes(r, "saveAs", <<Ev("saveAs", ok)>>, "upload")
          /\ fs' = IF ok THEN WriteFile(fs, downloadPath[r], dl[r].bytes, r) ELSE fs
    /\ UNCHANGED <<now, ticks, env, store, dl, downloadPath, fileName, cmd, at>>

\* 144: download.saveAs(downloadPath)
SaveAs(r) ==
    /\ \E ok \in BOOLEAN :
          /\ Goes(r, "saveAs", <<Ev("saveAs", ok)>>, IF ok THEN "upload" ELSE "selectorError")
          /\ fs' = IF ok THEN WriteFile(fs, downloadPath[r], dl[r].bytes, r) ELSE fs
    /\ UNCHANGED <<now, ticks, env, store, dl, downloadPath, fileName, cmd, at>>

\* 149-150 and uploadToR2 28-51: fileName is computed, uploadToR2 is called and
\* runs up to its await: the credentials test, readFileSync, the command
UploadBegin(r) ==
    LET name == ArtifactName(dl[r].suggested, now) IN
    /\ fileName' = [fileName EXCEPT ![r] = name]
    /\ at' = [at EXCEPT ![r].name = now]
    /\ IF CredentialsMissing(env.R2_ACCESS_KEY_ID, env.R2_SECRET_ACCESS_KEY)
       THEN /\ Goes(r, "upload",
                    <<Ev("uploadToR2", TRUE), Ev("log:skippingUpload", TRUE)>>,
                    "shotAfter")
            /\ UNCHANGED cmd
       ELSE \E readOk \in BOOLEAN :
              IF readOk /\ downloadPath[r] \in DOMAIN fs
              THEN /\ Goes(r, "upload",
                           <<Ev("uploadToR2", TRUE), Ev("readFileSync", TRUE)>>, "send")
                   /\ cmd' = [cmd EXCEPT ![r] =
                                PutObjectCommand(name, fs[downloadPath[r]].content, now)]
              ELSE /\ Goes(r, "upload",
                           <<Ev("uploadToR2", TRUE), Ev("readFileSync", FALSE),
                             Ev("log:uploadFailed", TRUE)>>,
                           "shotAfter")
                   /\ UNCHANGED cmd
    /\ UNCHANGED <<now, ticks, env, fs, store, dl, downloadPath>>

\* uploadToR2 53-60: r2Client.send(command); a rejection is caught and logged
Send(r) ==
    /\ \E ok \in BOOLEAN :
          IF ok
          THEN /\ Goes(r, "send", <<Ev("send", TRUE), Ev("log:uploaded", TRUE)>>, "shotAfter")
               /\ store' = PutObject(store, cmd[r], r)
          ELSE /\ Goes(r, "send", <<Ev("send", FALSE), Ev("log:uploadFailed", TRUE)>>, "shotAfter")
               /\ UNCHANGED store
    /\ UNCHANGED <<now, ticks, env, fs, dl, downloadPath, fileName, cmd, at>>

\* 153: the screenshot after the download
ShotAfter(r) ==
    Screenshot(r, "shotAfter", "shot:post-download", AFTER_DOWNLOAD_PATH,
               "logCompleted", "selectorError")

\* 159-164: the inner catch: logs the selector error, takes the error-state
\* screenshot; a rejection of that screenshot reaches the outer catch
SelectorError(r) ==
    /\ \E ok \in BOOLEAN :
          /\ Goes(r, "selectorError",
                  <<Ev("log:selectorError", TRUE), Ev("shot:post-selection-error", ok)>>,
                  IF ok THEN "logCompleted" ELSE "automationError")
          /\ fs' = IF ok THEN WriteFile(fs, ERROR_STATE_PATH, "png", r) ELSE fs
    /\ UNCHANGED <<now, ticks, env, store, dl, downloadPath, fileName, cmd, at>>

\* 166: "Pre-open market data extraction completed"
LogCompleted(r) ==
    /\ Goes(r, "logCompleted", <<Ev("log:completed", TRUE)>>, "finally")
    /\ UNCHANGED <<now, ticks, env, fs, store, dl, downloadPath, fileName, cmd, at>>

\* 168-174: the outer catch: logs the error, reads page.url()
AutomationError(r) ==
    /\ \E ok \in BOOLEAN :
          IF ok
          THEN Goes(r, "automationError",
                    <<Ev("log:automationError", TRUE), Ev("url", TRUE)>>, "shotErrorPage")
          ELSE Goes(r, "automationError",
                    <<Ev("log:automationError", TRUE), Ev("url", FALSE),
                      Ev("log:noErrorScreenshot", TRUE)>>, "finally")
    /\ UNCHANGED <<now, ticks, env, fs, store, dl, downloadPath, fileName, cmd, at>>

\* variant: the error-page screenshot without its own try/catch
ShotErrorPageUnguarded(r) ==
    /\ \E ok \in BOOLEAN :
          /\ Goes(r, "shotErrorPage", <<Ev("shot:fatal-error", ok)>>,
                  IF ok THEN "finally" ELSE "rejected")
          /\ fs' = IF ok THEN WriteFile(fs, ERROR_PAGE_PATH, "png", r) ELSE fs
    /\ UNCHANGED <<now, ticks, env, store, dl, downloadPath, fileName, cmd, at>>

\* 175-178: the error-page screenshot; its rejection is swallowed
ShotErrorPage(r) ==
    /\ \E ok \in BOOLEAN :
          /\ IF ok
             THEN Goes(r, "shotErrorPage", <<Ev("shot:fatal-error", TRUE)>>, "finally")
             ELSE Goes(r, "shotErrorPage",
                       <<Ev("shot:fatal-error", FALSE), Ev("log:noErrorScreenshot", TRUE)>>,
                       "finally")
          /\ fs' = IF ok THEN WriteFile(fs, ERROR_PAGE_PATH, "png", r) ELSE fs
    /\ UNCHANGED <<now, ticks, env, store, dl, downloadPath, fileName, cmd, at>>

\* 179-182: finally: browser.close(); a rejection rejects run()
Finally(r) == Await(r, "finally", "close", "resolved", "rejected")

\* 187-189: run() resolved: the finish line is logged, the process ends with 0
ThenFinished(r) ==
    /\ Goes(r, "resolved", <<Ev("log:finished", TRUE)>>, "exit0")
    /\ UNCHANGED <<now, ticks, env, fs, store, dl, downloadPath, fileName, cmd, at>>

\* 189-192: run() rejected: "Fatal error" is logged, process.exit(1)
CatchFatal(r) ==
    /\ Goes(r, "rejected", <<Ev("log:fatalError", TRUE)>>, "exit1")
    /\ UNCHANGED <<now, ticks, env, fs, store, dl, downloadPath, fileName, cmd, at>>

Running(r) == pc[r] \notin {"start", "exit0", "exit1"}
Terminated(r) == pc[r] \in {"exit0", "exit1"}

\* 133-139: downloadPromise was created (133) but csvButton.click() rejected
\* (136), so line 139 never awaits it and nothing handles its rejection
DanglingDownloadPromise(r) == Tried(r, "waitForEvent:download") /\ Failed(r, "click:csv")

\* 133: the un-awaited downloadPromise rejects (its timeout, or the page
\* closing); Node may end the process with exit code 1 on the unhandled
\* rejection (the default) or only warn (then this step is not taken)
UnhandledRejection(r) ==
    /\ Running(r)
    /\ DanglingDownloadPromise(r)
    /\ Goes(r, pc[r], <<Ev("unhandledRejection", TRUE)>>, "exit1")
    /\ UNCHANGED <<now, ticks, env, fs, store, dl, downloadPath, fileName, cmd, at>>

\* the wall clock advances by one millisecond while a run is in progress
Tick ==
    /\ ticks < MaxTicks
    /\ \E r \in Runs : Running(r)
    /\ ticks' = ticks + 1
    /\ now' = IF now.ms + 1 = MsPerDay
              THEN [day |-> now.day + 1, ms |-> 0]
              ELSE [day |-> now.day, ms |-> now.ms + 1]
    /\ UNCHANGED <<env, fs, store, pc, trace, dl, downloadPath, fileName, cmd, at>>
    /\ UNCHANGED apiVars

RunStep(r) ==
    \/ Mkdirs(r) \/ Launch(r) \/ NewContext(r) \/ NewPage(r)
    \/ Goto(r) \/ Settle(r) \/ ShotInitial(r) \/ Title(r)
    \/ WaitForSelector(r) \/ ClickControl(r) \/ Settle2(r) \/ SelectOption(r)
    \/ Settle3(r) \/ IsVisible(r) \/ ClickCsv(r) \/ AwaitDownload(r)
    \/ SaveAs(r) \/ UploadBegin(r) \/ Send(r) \/ ShotAfter(r)
    \/ SelectorError(r) \/ LogCompleted(r) \/ AutomationError(r)
    \/ ShotErrorPage(r) \/ Finally(r) \/ ThenFinished(r) \/ CatchFatal(r)
    \/ UnhandledRejection(r)

\* one invocation of the script (the scheduled deployment: one run at a time)
Next == Tick \/ RunStep(1)

Spec == Init /\ [][Next]_vars

(* --------------------------- classification ---------------------------- *)

\* the run entered the outer catch (168-178): "Error during automation"
FatalPath(r) == Tried(r, "log:automationError")

\* the run left the try/catch blocks (it is at or past the finally)
PastTry(r) == pc[r] \in {"finally", "resolved", "rejected", "exit0", "exit1"}

\* the run entered the try block (the page exists)
InTry(r) == Tried(r, "goto")

\* the diagnostic checkpoints
Checkpoints == {"shot:initial", "shot:post-download", "shot:post-selection-error",
                "shot:fatal-error"}

\* The outcome of a run, read off the failure boundary that handled it: the
\* outer catch is the fatal path; the inner catch, the not-visible branch and
\* uploadToR2's catch are the partial failures; the credentials branch is the
\* skip; otherwise the artifact was uploaded.
Outcome(r) ==
    IF FatalPath(r) THEN "FatalFailure"
    ELSE IF \/ Tried(r, "log:selectorError")
            \/ Tried(r, "log:buttonNotFound")
            \/ Tried(r, "log:uploadFailed") THEN "PartialFailure"
    ELSE IF Tried(r, "log:skippingUpload") THEN "Skipped"
    ELSE IF Tried(r, "log:uploaded") THEN "Completed"
    ELSE "None"

\* the store call of the run was issued (it is in flight or has returned)
StoreCallAttempted(r) == pc[r] = "send" \/ Tried(r, "send")

\* the file name part of the local downloadPath
LocalName(r) == SubSeq(downloadPath[r], Len(PathJoin(DOWNLOADS_PATH, "")) + 1,
                       Len(downloadPath[r]))

(* ------------------------------- claims -------------------------------- *)

\* C1: in every run, whatever step fails, the browser that was launched is
\* closed exactly once before the run terminates (never zero times, never twice).
C1_ClosedExactlyOnce ==
    \A r \in Runs :
        /\ Count(r, "close") <= 1
        /\ (Terminated(r) /\ Did(r, "launch")) => Count(r, "close") = 1

\* C1, what the code does guarantee: the browser is never closed twice, and a
\* run that entered the try block (the page was created) closes it exactly
\* once, unless the process dies on an unhandled rejection before the finally.
C1_ClosedOnceAfterPageCreated ==
    \A r \in Runs :
        /\ Count(r, "close") <= 1
        /\ Tried(r, "close") => InTry(r)
        /\ (Terminated(r) /\ InTry(r) /\ ~Tried(r, "unhandledRejection")) =>
              Count(r, "close") = 1

\* C2: if navigation succeeds and the control '#sel-Pre-Open-Market' never
\* appears, the run ends as PartialFailure, error-state.png has been captured,
\* and no download listener is armed, no click on the trigger and no upload
\* happens.
C2_ControlAbsentIsPartial ==
    \A r \in Runs :
        (Did(r, "goto") /\ Failed(r, "waitForSelector")) =>
            /\ ~Tried(r, "waitForEvent:download")
            /\ ~Tried(r, "click:csv")
            /\ ~Tried(r, "uploadToR2")
            /\ PastTry(r) =>
                 /\ Outcome(r) = "PartialFailure"
                 /\ Did(r, "shot:post-selection-error")

\* C2, what the code does guarantee: the claim holds in every run whose
\* error-state screenshot resolves.
C2_PartialWhenErrorShotResolves ==
    \A r \in Runs :
        (Did(r, "goto") /\ Failed(r, "waitForSelector")) =>
            /\ ~Tried(r, "waitForEvent:download")
            /\ ~Tried(r, "click:csv")
            /\ ~Tried(r, "uploadToR2")
            /\ PastTry(r) =>
                 /\ Count(r, "shot:post-selection-error") = 1
                 /\ Did(r, "shot:post-selection-error") => Outcome(r) = "PartialFailure"
                 /\ Failed(r, "shot:post-selection-error") => Outcome(r) = "FatalFailure"

\* C3 as claimed: uploadToR2 skips the upload exactly when both credentials
\* are absent, and attempts the store call whenever at least one is present.
C3_SkipIffBothAbsent ==
    \A r \in Runs :
        Tried(r, "uploadToR2") =>
            (Tried(r, "log:skippingUpload")
                <=> (~Truthy(env.R2_ACCESS_KEY_ID) /\ ~Truthy(env.R2_SECRET_ACCESS_KEY)))

\* C3 amended: uploadToR2 skips the upload (no file read, no store call)
\* exactly when at least one of the two credentials is absent or empty; the
\* store call is issued only when both are present, and is issued then as soon
\* as the local file has been read.
C3_SkipIffAnyAbsent ==
    \A r \in Runs :
        LET both == Truthy(env.R2_ACCESS_KEY_ID) /\ Truthy(env.R2_SECRET_ACCESS_KEY) IN
        /\ Tried(r, "uploadToR2") =>
              /\ Tried(r, "log:skippingUpload") <=> ~both
              /\ Tried(r, "log:skippingUpload") =>
                    ~Tried(r, "readFileSync") /\ ~StoreCallAttempted(r)
              /\ (both /\ Did(r, "readFileSync")) => StoreCallAttempted(r)
        /\ StoreCallAttempted(r) => both

C3_Witness ==
    \E r \in Runs :
        /\ Tried(r, "log:skippingUpload")
        /\ Truthy(env.R2_ACCESS_KEY_ID)
        /\ ~Truthy(env.R2_SECRET_ACCESS_KEY)

\* C4: when the download resolves with suggested file name N, the Archiver is
\* called with file name N and puts the object under the key
\* pre-open-market/<D>/<N>, D being the UTC date at archival time.
C4_KeyUnderPreOpenMarket ==
    \A r \in Runs :
        (Did(r, "send") /\ dl[r].suggested # "") =>
            /\ fileName[r] = dl[r].suggested
            /\ cmd[r].Key \in DOMAIN store
            /\ cmd[r].Key = "pre-open-market/"
                            \o Pad(CivilFromDays(at[r].name.day)[1], 4) \o "-"
                            \o Pad(CivilFromDays(at[r].name.day)[2], 2) \o "-"
                            \o Pad(CivilFromDays(at[r].name.day)[3], 2)
                            \o "/" \o dl[r].suggested

\* C4, what the code does: the key is nse-preopen/<D>/<N>, D the UTC date of
\* the instant at which uploadToR2 ran, whatever date N carries.
C4_KeyUnderNsePreopen ==
    \A r \in Runs :
        StoreCallAttempted(r) =>
            /\ dl[r].suggested # "" => fileName[r] = dl[r].suggested
            /\ cmd[r].Key = "nse-preopen/"
                            \o Pad(CivilFromDays(at[r].name.day)[1], 4) \o "-"
                            \o Pad(CivilFromDays(at[r].name.day)[2], 2) \o "-"
                            \o Pad(CivilFromDays(at[r].name.day)[3], 2)
                            \o "/" \o fileName[r]
            /\ Did(r, "send") => cmd[r].Key \in DOMAIN store

\* C5: if navigation fails, the run ends as FatalFailure: no selection and no
\* download step is executed, the Archiver is never invoked, and exactly one
\* diagnostic capture (error-page.png) is attempted when page.url() can be
\* read (none otherwise); a failure of that capture is swallowed: the run goes
\* on to close the browser and run() resolves.
C5_NavigationFailureIsFatal ==
    \A r \in Runs :
        Failed(r, "goto") =>
            /\ \A op \in {"waitForSelector", "click:control", "selectOption:ALL",
                          "isVisible:visible", "isVisible:hidden", "isVisible",
                          "waitForEvent:download", "click:csv", "download", "saveAs",
                          "uploadToR2", "send", "log:completed"} : ~Tried(r, op)
            /\ \A c \in Checkpoints \ {"shot:fatal-error"} : ~Tried(r, c)
            /\ Count(r, "shot:fatal-error") <= 1
            /\ PastTry(r) =>
                 /\ Outcome(r) = "FatalFailure"
                 /\ Count(r, "shot:fatal-error") = (IF Did(r, "url") THEN 1 ELSE 0)
                 /\ pc[r] = "finally" \/ Tried(r, "close")
            /\ Did(r, "close") => pc[r] \in {"resolved", "exit0"}

C5_Witness ==
    \E r \in Runs :
        /\ Failed(r, "goto")
        /\ Failed(r, "shot:fatal-error")
        /\ pc[r] = "exit0"

\* C6: a failure of a diagnostic screenshot never changes the outcome of the
\* run or the later pipeline steps: a failing initial screenshot does not
\* prevent the selection, a failing post-download screenshot leaves the outcome
\* of the upload in place and takes no error checkpoint, and a failing
\* error-state screenshot does not lead to the fatal path.
C6_ScreenshotFailureHarmless ==
    \A r \in Runs :
        PastTry(r) =>
            /\ Failed(r, "shot:initial") =>
                  Tried(r, "waitForSelector") /\ ~FatalPath(r)
            /\ (Failed(r, "shot:post-download") /\ Did(r, "send")) =>
                  /\ Outcome(r) = "Completed"
                  /\ ~Tried(r, "shot:post-selection-error")
            /\ Failed(r, "shot:post-selection-error") => ~FatalPath(r)

\* C7: in every run that clicks the download trigger the download listener was
\* armed strictly before the click, and the trigger had been seen visible
\* before that.
C7_ArmedBeforeClick ==
    \A r \in Runs :
        Tried(r, "click:csv") =>
            /\ Count(r, "waitForEvent:download") = 1
            /\ Count(r, "click:csv") = 1
            /\ FirstIndex(r, "waitForEvent:download") < FirstIndex(r, "click:csv")
            /\ Did(r, "isVisible:visible")
            /\ FirstIndex(r, "isVisible:visible") < FirstIndex(r, "waitForEvent:download")
            /\ ~Tried(r, "isVisible:hidden")

C7_Witness == \E r \in Runs : Did(r, "click:csv") /\ Did(r, "download")

C9_UploadFailureContained ==
    \A r \in Runs :
        Failed(r, "send") =>
            /\ downloadPath[r] \in DOMAIN fs
            /\ ~FatalPath(r)
            /\ PastTry(r) => Outcome(r) = "PartialFailure"

\* C9, what the code does guarantee: the claim holds in every run in which no
\* later screenshot rejects.
C9_ContainedWhenScreenshotsResolve ==
    \A r \in Runs :
        Failed(r, "send") =>
            /\ downloadPath[r] \in DOMAIN fs
            /\ pc[r] # "shotAfter" => Tried(r, "shot:post-download")
            /\ (PastTry(r) /\ Did(r, "shot:post-download")) =>
                  /\ ~FatalPath(r)
                  /\ ~Tried(r, "shot:post-selection-error")
                  /\ Outcome(r) = "PartialFailure"
            /\ FatalPath(r) =>
                  Failed(r, "shot:post-download") /\ Failed(r, "shot:post-selection-error")

\* C10 as claimed: whenever the trigger is visible and the download event
\* resolves, the Archiver is invoked with a non-empty file name.
C10_ArchiverInvokedAfterDownload ==
    \A r \in Runs :
        (Did(r, "isVisible:visible") /\ Did(r, "download") /\ PastTry(r)) =>
            Tried(r, "uploadToR2") /\ fileName[r] # ""

\* C10 amended: whenever the trigger is visible, the download event resolves
\* and the artifact has been saved locally, the Archiver is invoked with a
\* non-empty file name: the suggested name when one is provided, otherwise
\* pre-open-data-<ms>.csv with <ms> the instant of the invocation; names
\* synthesized at different instants differ.
C10_ArchiverGetsNonEmptyName ==
    \A r \in Runs :
        /\ (Did(r, "saveAs") /\ pc[r] # "upload") => Tried(r, "uploadToR2")
        /\ Tried(r, "uploadToR2") =>
              /\ Did(r, "isVisible:visible") /\ Did(r, "download") /\ Did(r, "saveAs")
              /\ fileName[r] # ""
              /\ dl[r].suggested # "" => fileName[r] = dl[r].suggested
              /\ dl[r].suggested = "" =>
                    /\ fileName[r] = "pre-open-data-" \o DateNowString(at[r].name) \o ".csv"
                    /\ (fileName[r] = LocalName(r)) <=> (at[r].name = at[r].path)

C10_Witness ==
    \E r \in Runs :
        /\ Tried(r, "uploadToR2")
        /\ dl[r].suggested = ""
        /\ at[r].name # at[r].path

(* ------------------- claims about the order of the steps ---------------- *)

\* the position of a call in the pipeline navigate -> settle -> select ->
\* arm/click/download -> save -> archive (0: not a pipeline step)
Stage(op) ==
    CASE op = "goto" -> 1
      [] op = "waitForTimeout:8000" -> 2
      [] op = "waitForSelector" -> 3
      [] op = "click:control" -> 4
      [] op = "waitForTimeout:2000" -> 5
      [] op = "selectOption:ALL" -> 6
      [] op = "waitForTimeout:3000" -> 7
      [] op \in {"isVisible", "isVisible:visible", "isVisible:hidden"} -> 8
      [] op = "waitForEvent:download" -> 9
      [] op = "click:csv" -> 10
      [] op = "download" -> 11
      [] op = "saveAs" -> 12
      [] op = "uploadToR2" -> 13
      [] op = "readFileSync" -> 14
      [] op = "send" -> 15
      [] OTHER -> 0

\* C12: within one run the pipeline steps occur at most once each and only in
\* the order navigate, settle, select, arm/click/download, save, archive; the
\* Archiver is called only after the artifact was saved to the local path; and
\* after a step has failed no later pipeline step is executed.
C12_ForwardOnly ==
    \A r \in Runs :
        /\ \A i, j \in 1..Len(trace[r]) :
              (i < j /\ Stage(trace[r][i][1]) > 0 /\ Stage(trace[r][j][1]) > 0) =>
                  /\ Stage(trace[r][i][1]) < Stage(trace[r][j][1])
                  /\ trace[r][i][2]
        /\ \A i, j \in 1..Len(trace[r]) :
              (i < j /\ ~trace[r][i][2]) => Stage(trace[r][j][1]) = 0
        /\ Tried(r, "uploadToR2") =>
              /\ Did(r, "saveAs")
              /\ downloadPath[r] \in DOMAIN fs
              /\ FirstIndex(r, "saveAs") < FirstIndex(r, "uploadToR2")

C12_Witness ==
    \E r \in Runs : Did(r, "send") /\ Did(r, "shot:post-download") /\ pc[r] = "exit0"

\* C13: every suspension point is bounded, so every started run eventually
\* reaches a terminal state (the process ends), whatever the page and the
\* store do.
C13_EventuallyTerminates == <>Terminated(1)

\* the awaits that cannot stay pending for ever: explicit timeouts (goto 30000,
\* waitForSelector 15000), fixed delays (waitForTimeout), Playwright's default
\* 30 s timeout (launch, click, selectOption, screenshot, waitForEvent), and
\* calls that do not wait for the page.  download.saveAs (144) and
\* r2Client.send (53) have no timeout of either kind and are left out.
BoundedStep(r) ==
    \/ Mkdirs(r) \/ Launch(r) \/ NewContext(r) \/ NewPage(r)
    \/ Goto(r) \/ Settle(r) \/ ShotInitial(r) \/ Title(r)
    \/ WaitForSelector(r) \/ ClickControl(r) \/ Settle2(r) \/ SelectOption(r)
    \/ Settle3(r) \/ IsVisible(r) \/ ClickCsv(r) \/ AwaitDownload(r)
    \/ UploadBegin(r) \/ ShotAfter(r)
    \/ SelectorError(r) \/ LogCompleted(r) \/ AutomationError(r)
    \/ ShotErrorPage(r) \/ Finally(r) \/ ThenFinished(r) \/ CatchFatal(r)

\* one invocation of the script in which every bounded await returns
LiveSpec == Init /\ [][Next]_vars /\ WF_vars(BoundedStep(1))

\* C13, what the code does guarantee: a run never stays for ever at an await
\* other than download.saveAs and r2Client.send.
C13_TerminatesOrWaitsUnbounded ==
    <>(Terminated(1) \/ [](pc[1] \in {"saveAs", "send"}))

(* --------------------- claims about the run's report -------------------- *)

\* 166: the run logged "Pre-open market data extraction completed"
ReportsCompleted(r) == Tried(r, "log:completed")

\* the artifact of the run was put into the bucket
Uploaded(r) == Did(r, "send")

\* C15: the outcome a run reports is Completed if and only if the artifact was
\* uploaded; a run that did not upload (control absent, trigger not visible,
\* upload skipped or failed) does not report completion.
C15_CompletedIffUploaded ==
    \A r \in Runs :
        Terminated(r) =>
            /\ (Outcome(r) = "Completed") <=> Uploaded(r)
            /\ ReportsCompleted(r) => Uploaded(r)

\* C15, what the code does: the completion line is logged by every run that
\* leaves the inner try/catch without an exception, uploaded or not, and the
\* result of uploadToR2 is not looked at.
C15_CompletionLoggedUnlessFatal ==
    \A r \in Runs :
        (InTry(r) /\ PastTry(r) /\ ~Tried(r, "unhandledRejection")) =>
            (ReportsCompleted(r) <=> ~FatalPath(r))

\* navigation itself failed: page.goto or the settle delay after it rejected
NavigationFailed(r) == Failed(r, "goto") \/ Failed(r, "waitForTimeout:8000")

\* C19: a run takes the fatal path (outer catch) if and only if navigation
\* itself failed; after navigation and the settle delay succeeded no later
\* failure leads to the fatal path.
C19_FatalIffNavigationFailed ==
    \A r \in Runs : FatalPath(r) <=> NavigationFailed(r)

\* C19, what the code does: the fatal path is taken exactly when page.goto,
\* the settle delay, the initial screenshot, page.title() or the error-state
\* screenshot rejects.
C19_FatalPathCauses ==
    \A r \in Runs :
        (PastTry(r) /\ ~Tried(r, "unhandledRejection")) =>
            (FatalPath(r) <=>
                \/ NavigationFailed(r)
                \/ Failed(r, "shot:initial")
                \/ Failed(r, "title")
                \/ Failed(r, "shot:post-selection-error"))

\* the failures that escape run(): the calls outside the try block and
\* browser.close() in the finally
OrchestratorFailed(r) ==
    \/ Failed(r, "mkdir") \/ Failed(r, "launch") \/ Failed(r, "newContext")
    \/ Failed(r, "newPage") \/ Failed(r, "close")

\* C20: no failure of a pipeline step escapes run(): the process exits with a
\* non-zero code only when directory creation, browser launch, context or page
\* creation or browser close failed.
C20_ExitOneOnlyFromOrchestrator ==
    \A r \in Runs : pc[r] = "exit1" => OrchestratorFailed(r)

\* C20, what the code does guarantee: run() itself rejects only on those
\* failures; the one other way to exit code 1 is the unhandled rejection of the
\* download promise left behind when the click on the trigger rejects.
C20_ExitOneCauses ==
    \A r \in Runs :
        /\ pc[r] = "rejected" => OrchestratorFailed(r)
        /\ pc[r] = "exit1" =>
              \/ OrchestratorFailed(r)
              \/ (Tried(r, "unhandledRejection") /\ Failed(r, "click:csv"))
        /\ pc[r] = "exit0" => ~OrchestratorFailed(r)

(* --------------------------- concurrent runs ---------------------------- *)

\* every call made so far resolved and the download trigger was visible; a
\* readFileSync may only have thrown because the file was not there
AllResolved ==
    \A r \in Runs : \A i \in 1..Len(trace[r]) :
        /\ \/ trace[r][i][2]
           \/ trace[r][i][1] = "readFileSync" /\ downloadPath[r] \notin DOMAIN fs
        /\ trace[r][i][1] \notin {"isVisible:hidden", "log:buttonNotFound",
                                  "unhandledRejection"}

\* the file names the site suggests to concurrent runs ("" = none)
ConcNames == {"", "preopen_20240924.csv"}

\* the payload the site serves to run r (the two runs get different bytes)
PayloadOf(r) == IF r = 1 THEN "SYMBOL,PRICE" ELSE "SYMBOL,PRICE,QTY"

\* the downloads of the concurrent runs
ConcDownloads ==
    \A r \in Runs :
        \/ dl[r] = NoDownload
        \/ dl[r].suggested \in ConcNames /\ dl[r].bytes = PayloadOf(r)

\* a step of run r in an environment where the page, the browser and the store
\* answer every call
ResolvedStep(r) == RunStep(r) /\ AllResolved' /\ ConcDownloads'

\* both credentials are configured
ConcInit ==
    /\ Init
    /\ Truthy(env.R2_ACCESS_KEY_ID)
    /\ Truthy(env.R2_SECRET_ACCESS_KEY)

ConcNext == Tick \/ \E r \in Runs : ResolvedStep(r)

\* two invocations of the script on one host (shared scratch directories) and
\* one bucket, their steps interleaved in every order
ConcSpec == ConcInit /\ [][ConcNext]_vars

\* the run has built its PutObjectCommand
HasKey(r) == cmd[r] # NoCommand

\* the UTC calendar day (days since 1970-01-01) on which run r uploaded
UploadDay(r) == at[r].name.day

\* C11: the storage key is a function of (category, UTC date, file name) only:
\* two uploads on the same UTC calendar date with the same file name have the
\* identical key, and two uploads on different UTC calendar dates never have
\* the same key, whatever their file names.
C11_KeyFunctionOfDateAndName ==
    \A r1, r2 \in Runs :
        (HasKey(r1) /\ HasKey(r2)) =>
            /\ (UploadDay(r1) = UploadDay(r2) /\ fileName[r1] = fileName[r2])
                  => cmd[r1].Key = cmd[r2].Key
            /\ UploadDay(r1) # UploadDay(r2) => cmd[r1].Key # cmd[r2].Key
            /\ cmd[r1].Key = cmd[r2].Key => fileName[r1] = fileName[r2]

\* two uploads of the same file name on either side of UTC midnight
C11_Witness ==
    /\ HasKey(1) /\ HasKey(2)
    /\ fileName[1] = fileName[2]
    /\ UploadDay(1) # UploadDay(2)
    /\ cmd[1].Key # cmd[2].Key
    /\ Uploaded(1) /\ Uploaded(2)

\* the two runs share the UTC date and the file name, hence the key
SameKey == HasKey(1) /\ HasKey(2) /\ cmd[1].Key = cmd[2].Key

\* a run that ended, ended with its artifact uploaded and exit code 0
Succeeded(r) ==
    /\ pc[r] = "exit0"
    /\ Outcome(r) = "Completed"
    /\ Uploaded(r)

\* in this step run r's store put returned
PutReturned(r) == pc[r] = "send" /\ pc'[r] # "send"

\* C14: two concurrent runs on the same UTC date with the same file name both
\* succeed under every interleaving (the file a run saved is there when it
\* reads it, and every run that ends has uploaded and exits with code 0), and
\* the object under the shared key is the one written by the later put: each
\* put replaces whatever the other run stored there and touches no other key.
C14_BothSucceedLastWriteWins ==
    /\ [](\A r \in Runs :
            /\ pc[r] = "upload" => downloadPath[r] \in DOMAIN fs
            /\ Terminated(r) => Succeeded(r))
    /\ [][\A r \in Runs :
            PutReturned(r) =>
                /\ cmd[r].Key \in DOMAIN store'
                /\ store'[cmd[r].Key].Body = cmd[r].Body
                /\ store'[cmd[r].Key].by = r
                /\ \A k \in DOMAIN store : k # cmd[r].Key => store'[k] = store[k]]_vars

\* both runs ended, they shared the key, their payloads differ, and the object
\* stored is run 1's although run 2 had stored its own before
C14_Witness ==
    /\ SameKey
    /\ Succeeded(1) /\ Succeeded(2)
    /\ cmd[1].Body # cmd[2].Body
    /\ store[cmd[1].Key].by = 1
    /\ store[cmd[1].Key].Body = cmd[1].Body

(* ------------------ the read API: api/rate-limiter.ts ------------------- *)

\* rate-limiter.ts 3-4
WINDOW_MS == 60000
MAX_REQUESTS == 30

\* requests one caller with an address may have let through in the model
MaxAllowed == 32

\* requests the callers without an address may have let through in the model
MaxAnonymous == 1

\* the CF-Connecting-IP header of a request: absent, empty, or an address
Headers == {<<>>, <<"">>, <<"203.0.113.7">>}

\* the instants (ms since the first request) at which requests arrive: a burst
\* at 0, the last millisecond at which it still counts, the first at which it
\* does not
Instants == {0, WINDOW_MS - 1, WINDOW_MS}

\* index.ts 19: c.req.header("CF-Connecting-IP") || "unknown"
CallerOf(h) == IF Truthy(h) THEN h[1] ELSE "unknown"

\* rate-limiter.ts 10-12: the timestamps still inside the window at instant t
InWindow(stamps, t) == SelectSeq(stamps, LAMBDA ts : t - ts < WINDOW_MS)

\* variant: the ceiling test with > in place of >=
LimitExceeded(n) == n > MAX_REQUESTS

\* rate-limiter.ts 15: this.requests.length >= this.MAX_REQUESTS
LimitReached(n) == n >= MAX_REQUESTS

\* variant: the request is recorded before the ceiling is tested
LimiterFetchCountingDenied(stamps, t) ==
    LET kept == InWindow(stamps, t) IN
    [allowed |-> ~LimitReached(Len(kept)), requests |-> Append(kept, t)]

\* rate-limiter.ts 6-27: RateLimiter.fetch at instant t on the stored stamps
LimiterFetch(stamps, t) ==
    LET kept == InWindow(stamps, t) IN
    IF LimitReached(Len(kept))
    THEN [allowed |-> FALSE, requests |-> kept]
    ELSE [allowed |-> TRUE, requests |-> Append(kept, t)]

(* ---------------------- the read API: api/index.ts ---------------------- *)

API_PREFIX == "pre-open-market/"

Digits == "0123456789"

IsDigit(c) == \E i \in 1..Len(Digits) : SubSeq(Digits, i, i) = c

DigitValue(c) == (CHOOSE i \in 1..Len(Digits) : SubSeq(Digits, i, i) = c) - 1

\* Number(s) for a string of decimal digits (Number("") is 0)
RECURSIVE ToNumber(_)
ToNumber(s) ==
    IF s = "" THEN 0
    ELSE ToNumber(SubSeq(s, 1, Len(s) - 1)) * 10 + DigitValue(SubSeq(s, Len(s), Len(s)))

\* index.ts 40-41 and 107-108: z.string().transform(Number).optional(), then
\* `|| fallback` (an absent parameter and 0 both give the fallback)
QueryNumber(q, fallback) ==
    IF q = <<>> THEN fallback
    ELSE IF ToNumber(q[1]) = 0 THEN fallback ELSE ToNumber(q[1])

\* /^\d{4}-\d{2}-\d{2}$/
IsDateText(d) ==
    /\ Len(d) = 10
    /\ \A i \in 1..10 :
          IF i \in {5, 8} THEN SubSeq(d, i, i) = "-" ELSE IsDigit(SubSeq(d, i, i))

\* key.match(/(\d{4}-\d{2}-\d{2})\.csv$/): <<the date>> or <<>> for no match
MatchDateCsv(key) ==
    LET n == Len(key) IN
    IF n >= 14 /\ SubSeq(key, n - 3, n) = ".csv" /\ IsDateText(SubSeq(key, n - 13, n - 4))
    THEN <<SubSeq(key, n - 13, n - 4)>>
    ELSE <<>>

StartsWith(s, prefix) ==
    /\ Len(s) >= Len(prefix)
    /\ SubSeq(s, 1, Len(prefix)) = prefix

\* the UTF-16 code unit of a character of a date
CodeUnit(c) == IF c = "-" THEN 45 ELSE 48 + DigitValue(c)

\* a < b as Array.prototype.sort compares strings (by code units)
RECURSIVE StrLess(_, _)
StrLess(a, b) ==
    IF a = "" THEN b # ""
    ELSE IF b = "" THEN FALSE
    ELSE IF SubSeq(a, 1, 1) = SubSeq(b, 1, 1)
         THEN StrLess(SubSeq(a, 2, Len(a)), SubSeq(b, 2, Len(b)))
         ELSE CodeUnit(SubSeq(a, 1, 1)) < CodeUnit(SubSeq(b, 1, 1))

\* Array.from(set).sort()
RECURSIVE SortAscending(_)
SortAscending(S) ==
    IF S = {} THEN <<>>
    ELSE LET m == CHOOSE x \in S : \A y \in S : x = y \/ StrLess(x, y)
         IN  <<m>> \o SortAscending(S \ {m})

\* .reverse()
Reverse(seq) == [i \in 1..Len(seq) |-> seq[Len(seq) + 1 - i]]

\* Array.prototype.slice(start, end): a negative index counts from the end
Slice(seq, start, end) ==
    LET n  == Len(seq)
        lo == IF start < 0 THEN (IF n + start < 0 THEN 0 ELSE n + start)
              ELSE (IF start > n THEN n ELSE start)
        hi == IF end < 0 THEN (IF n + end < 0 THEN 0 ELSE n + end)
              ELSE (IF end > n THEN n ELSE end)
    IN  IF lo >= hi THEN <<>> ELSE SubSeq(seq, lo + 1, hi)

\* Math.ceil(a / b) for a >= 0, b >= 1
CeilDiv(a, b) == (a + b - 1) \div b

\* index.ts 111-113: R2_BUCKET.list({prefix}): the keys under the prefix
ListKeys(bucket, prefix) == {k \in DOMAIN bucket : StartsWith(k, prefix)}

\* index.ts 116-122: the dates of the listed keys that match the pattern
DateSet(bucket) ==
    {MatchDateCsv(k)[1] : k \in {x \in ListKeys(bucket, API_PREFIX) : MatchDateCsv(x) # <<>>}}

\* variant: pages counted from 0
PageStartFromZero(page, limit) == page * limit

\* index.ts 129: start = (page - 1) * limit
PageStart(page, limit) == (page - 1) * limit

\* index.ts 105-141: the 200 response of GET /api/dates
ListDatesBody(bucket, page, limit) ==
    LET dates      == Reverse(SortAscending(DateSet(bucket)))
        totalCount == Len(dates)
        start      == PageStart(page, limit)
    IN  [dates      |-> Slice(dates, start, start + limit),
         totalCount |-> totalCount,
         page       |-> page,
         limit      |-> limit,
         totalPages |-> CeilDiv(totalCount, limit)]

\* index.ts 210: the key GET /api/download/{date} reads
DownloadKey(date) == API_PREFIX \o date \o ".csv"

\* index.ts 206-225: status and body of GET /api/download/{date}
DownloadBody(bucket, date) ==
    IF DownloadKey(date) \in DOMAIN bucket
    THEN [status |-> 200, body |-> [csv |-> bucket[DownloadKey(date)].Body]]
    ELSE [status |-> 404, body |-> [error |-> "File not found for the specified date"]]

(* ------------------------- the read API: requests ----------------------- *)

\* the largest page and limit parameters a request may carry
MaxPage == 3
MaxLimit == 2

\* the ?page= and ?limit= parameters: absent, or a decimal string
PageParams == {<<>>} \cup {<<ToString(n)>> : n \in 0..MaxPage}
LimitParams == {<<>>} \cup {<<ToString(n)>> : n \in 0..MaxLimit}

\* the {date} path parameters: a stored date, a date not stored, not a date
DateParams == {"2024-09-24", "2024-09-26", "24-09-2024"}

\* the requests to /api/*
DatesQueries == [route : {"dates"}, page : PageParams, limit : LimitParams, date : {""}]
DownloadQueries == [route : {"download"}, page : {<<>>}, limit : {<<>>}, date : DateParams]
Queries == DatesQueries \cup DownloadQueries

\* the request of the rate-limit scenario
RateQueries ==
    {[route |-> "download", page |-> <<>>, limit |-> <<>>, date |-> "2024-09-24"]}

\* keys the bucket may hold: three dates and a second key of a stored date
DateKeys ==
    {"pre-open-market/2024-09-24.csv", "pre-open-market/2024-09-25.csv",
     "pre-open-market/2024-10-01.csv", "pre-open-market/backup-2024-09-24.csv"}

\* a key under the prefix that is no date file and a date file outside it
OtherKeys == {"pre-open-market/readme.txt", "archive/2024-09-27.csv"}

BucketOf(keys) ==
    [k \in keys |-> [Body |-> "SYMBOL,PRICE", ContentType |-> "text/csv",
                     Metadata |-> NoCommand.Metadata, by |-> 0]]

Buckets == {BucketOf(K \cup N) : K \in SUBSET DateKeys, N \in {{}, OtherKeys}}

\* requests an identity may make in the scenario of the routes
MaxCalls == 1

\* the cap on the requests an identity may have let through in the scenario of
\* the rate limit
Quota(ip) == IF ip = "unknown" THEN MaxAnonymous ELSE MaxAllowed

\* index.ts 32: the middleware's answer to a request over the limit
RateLimitedResponse(ip, q) ==
    [ip |-> ip, at |-> clock, allowed |-> FALSE, route |-> q.route, status |-> 429,
     handler |-> "", body |-> [error |-> "Rate limit exceeded"]]

\* index.ts 105-147 and 206-230: the route (validation, handler) answers; ok
\* tells whether the R2 call returned
RouteResponse(ip, q, ok) ==
    LET base == [ip |-> ip, at |-> clock, allowed |-> TRUE, route |-> q.route] IN
    IF q.route = "dates"
    THEN IF ok
         THEN base @@ [status |-> 200, handler |-> "listDates",
                       body |-> ListDatesBody(store, QueryNumber(q.page, 1),
                                                     QueryNumber(q.limit, 10))]
         ELSE base @@ [status |-> 500, handler |-> "listDates",
                       body |-> [error |-> "Failed to list dates"]]
    ELSE IF ~IsDateText(q.date)
         THEN base @@ [status |-> 400, handler |-> "",
                       body |-> [error |-> "validation"]]
    ELSE IF ok
         THEN base @@ [handler |-> "downloadFile"] @@ DownloadBody(store, q.date)
         ELSE base @@ [status |-> 500, handler |-> "downloadFile",
                       body |-> [error |-> "Failed to download file"]]

\* index.ts 18-36 then the route: one request to /api/* with header h
ApiRequest(h, q) ==
    LET ip  == CallerOf(h)
        lim == LimiterFetch(requests[ip], clock)
    IN  /\ requests' = [requests EXCEPT ![ip] = lim.requests]
        /\ allowedAt' = [allowedAt EXCEPT ![ip] =
                           IF lim.allowed THEN Append(@, clock) ELSE @]
        /\ \E ok \in BOOLEAN :
              resp' = IF lim.allowed THEN RouteResponse(ip, q, ok)
                      ELSE RateLimitedResponse(ip, q)
        /\ UNCHANGED <<now, env, fs, store, pc, trace, dl, downloadPath, fileName,
                       cmd, at, clock, ticks>>

\* time passes on the API's host between two requests
Elapse ==
    /\ \E t \in Instants : t > clock /\ clock' = t
    /\ UNCHANGED <<now, ticks, env, fs, store, pc, trace, dl, downloadPath, fileName,
                   cmd, at, requests, allowedAt, resp>>

\* the API deployed over a bucket drawn from `buckets`; no run of the scraper
ApiStart(buckets) ==
    /\ now = [day |-> CHOOSE d \in StartDays : TRUE, ms |-> CHOOSE m \in StartMs : TRUE]
    /\ ticks = 0
    /\ env = [R2_ACCESS_KEY_ID |-> <<>>, R2_SECRET_ACCESS_KEY |-> <<>>]
    /\ fs = [p \in {} |-> NoFile]
    /\ store \in buckets
    /\ pc = [r \in Runs |-> "start"]
    /\ trace = [r \in Runs |-> <<>>]
    /\ dl = [r \in Runs |-> NoDownload]
    /\ downloadPath = [r \in Runs |-> ""]
    /\ fileName = [r \in Runs |-> ""]
    /\ cmd = [r \in Runs |-> NoCommand]
    /\ at = [r \in Runs |-> [path |-> NoInstant, name |-> NoInstant]]
    /\ ApiIdle

RateInit == ApiStart({BucketOf({"pre-open-market/2024-09-24.csv"})})

\* a request of the rate-limit scenario
RateRequest(h, q) ==
    /\ Len(allowedAt[CallerOf(h)]) < Quota(CallerOf(h))
    /\ ApiRequest(h, q)

RateNext == Elapse \/ \E h \in Headers, q \in RateQueries : RateRequest(h, q)

\* requests of the callers over time, the rate limiter deciding each
RateSpec == RateInit /\ [][RateNext]_vars

ApiInit == ApiStart(Buckets)

\* a request of the scenario of the routes
ApiCall(h, q) ==
    /\ Len(allowedAt[CallerOf(h)]) < MaxCalls
    /\ ApiRequest(h, q)

ApiNext == \E h \in Headers, q \in Queries : ApiCall(h, q)

\* requests of every kind at one instant, over every bucket content
ApiSpec == ApiInit /\ [][ApiNext]_vars

(* ------------------------ claims about the read API --------------------- *)

DateNumber(d) ==
    ToNumber(SubSeq(d, 1, 4)) * 10000 + ToNumber(SubSeq(d, 6, 7)) * 100
        + ToNumber(SubSeq(d, 9, 10))

\* the elements of a sequence
Range(seq) == {seq[i] : i \in 1..Len(seq)}

C17_ArchivedIsServed ==
    \A r \in Runs :
        Uploaded(r) =>
            LET D == UploadDate(at[r].name) IN
            /\ DownloadBody(store, D).status = 200
            /\ DownloadBody(store, D).body.csv = cmd[r].Body
            /\ D \in DateSet(store)

\* C17, what the code does: the object a run stores is under
\* nse-preopen/<date>/<name>; the API answers 404 for its date and lists no date.
C17_ArchivedIsNotServed ==
    \A r \in Runs :
        Uploaded(r) =>
            LET D == UploadDate(at[r].name) IN
            /\ IsDateText(D)
            /\ cmd[r].Key \in DOMAIN store
            /\ DownloadBody(store, D).status = 404
            /\ ListDatesBody(store, 1, 10).totalCount = 0

(* ------------------ claims about the local artifact file ---------------- *)

\* C21: in every run that archives an artifact, the file name in the storage
\* key is the file name under which the artifact was saved locally, also when
\* the download suggests no name and the name is made from the clock.
C21_KeyNameIsLocalName ==
    \A r \in Runs :
        Uploaded(r) =>
            /\ fileName[r] = LocalName(r)
            /\ EndsWith(cmd[r].Key, "/" \o LocalName(r))

\* C21, what the code does: the two names agree when the download suggests a
\* name, or when Date.now() returns the same millisecond at lines 143 and 149;
\* otherwise the key carries the later instant.
C21_NamesAgreeUnlessClockMoved ==
    \A r \in Runs :
        Uploaded(r) =>
            /\ (dl[r].suggested # "" \/ at[r].path = at[r].name)
                  => fileName[r] = LocalName(r)
            /\ (dl[r].suggested = "" /\ at[r].path # at[r].name) =>
                  /\ LocalName(r) = SynthName(at[r].path)
                  /\ fileName[r] = SynthName(at[r].name)
                  /\ fileName[r] # LocalName(r)

\* C22: under any interleaving of two runs that share ./downloads, the bytes a
\* run uploads are the bytes that run downloaded.
C22_UploadsOwnBytes ==
    \A r \in Runs : HasKey(r) => cmd[r].Body = dl[r].bytes

\* C22, what the code does: a run uploads what is in the file at downloadPath
\* when it reads it (line 37); that is its own download unless the other run
\* saved to the same path (same suggested name, or the same millisecond), and
\* then it is the other run's.
C22_UploadsOwnBytesUnlessPathShared ==
    \A r \in Runs :
        HasKey(r) =>
            \/ cmd[r].Body = dl[r].bytes
            \/ \E o \in Runs \ {r} :
                  /\ downloadPath[o] = downloadPath[r]
                  /\ Did(o, "saveAs")
                  /\ cmd[r].Body = dl[o].bytes

(* -------------------- claims about denied requests ---------------------- *)

\* C23: denied requests are not counted: the recorded stamps are always at
\* most 30 and all of allowed requests; a denied check changes the stamps of
\* its identity only by dropping those 60000 ms old or older and changes no
\* other identity's; and a request made when the oldest recorded stamp is at
\* least 60000 ms old is allowed, however many requests were denied before.
C23_DeniedNotCounted ==
    /\ [](\A ip \in Identities :
            /\ Len(requests[ip]) <= 30
            /\ Len(requests[ip]) <= Len(allowedAt[ip])
            /\ requests[ip] = SubSeq(allowedAt[ip],
                                     Len(allowedAt[ip]) - Len(requests[ip]) + 1,
                                     Len(allowedAt[ip])))
    /\ [][clock' = clock =>
            LET ip  == resp'.ip
                old == requests[ip]
            IN  /\ ~resp'.allowed =>
                      /\ requests'[ip] = SelectSeq(old, LAMBDA ts : clock - ts < 60000)
                      /\ allowedAt' = allowedAt
                /\ (old # <<>> /\ clock - old[1] >= 60000) => resp'.allowed
                /\ \A o \in Identities \ {ip} : requests'[o] = requests[o]]_vars

\* a denied check at 60000 that dropped the stamp of instant 0 and recorded
\* nothing: 31 requests were let through, 30 of them are still recorded
C23_Witness ==
    /\ ~resp.allowed
    /\ resp.at = 60000
    /\ Len(allowedAt[resp.ip]) = 31
    /\ allowedAt[resp.ip][1] = 0
    /\ Len(requests[resp.ip]) = 30
    /\ requests[resp.ip][1] = 59999
    /\ requests[resp.ip][30] = 60000

=============================================================================
